---- MODULE Spec2Model ----
(***************************************************************************)
(* Model of extract_tmdb_movies.py: the retrying GET (_get_with_retries),  *)
(* the pagination walk (fetch_movies), the upload (upload_to_s3) and the   *)
(* entry point (main).                                                     *)
(*                                                                         *)
(* Time is counted in quarters of a second, so that 0.25 s is 1 and the    *)
(* backoff 2^attempt + 0.25 s is 4 * 2^attempt + 1.                        *)
(***************************************************************************)
EXTENDS Integers, Sequences, FiniteSets, TLC

VARIABLES
    TMDB_API_KEY,   \* TRUE when the credential is configured (line 13)
    NUM_PAGES,      \* the configured page count (line 15)
    pc,             \* position of the single thread of control
    page,           \* fetch_movies: loop variable `page`
    items,          \* fetch_movies: summaries of the page not yet iterated
    movie_id,       \* fetch_movies: `movie_id` of the item being processed
    movies,         \* fetch_movies: the accumulated list `movies`
    item_log,       \* the log record fetch_movies emitted for the last item
    delays,         \* rate-limit sleeps done since the last per-item try began
    tried,          \* TRUE once a per-item try block has been entered
    page_ids,       \* summaries of the current page that carry an id
    page_calls,     \* get_movie_details calls made for the current page
    listed,         \* summaries listed so far in the run
    pages_listed,   \* listing pages fetched successfully so far
    caller,         \* who called _get_with_retries
    max_retries,    \* _get_with_retries: parameter max_retries
    attempt,        \* _get_with_retries: loop variable `attempt`
    wait,           \* _get_with_retries: local `wait`
    trace,          \* requests, warnings and sleeps of the current call, in order
    ret,            \* how the last call of _get_with_retries ended
    s3_puts,        \* the put_object calls made, in order
    raised,         \* the exception that left main, or "none"
    main_log,       \* log records of main and upload_to_s3 after the walk
    s3_key,         \* the key upload_to_s3 returned to main, or "none"
    get_calls,      \* requests.get calls made so far
    ids_listed      \* summaries carrying an id listed so far

vars == << TMDB_API_KEY, NUM_PAGES, pc, page, items, movie_id, movies, item_log,
           delays, tried, page_ids, page_calls, listed, pages_listed, caller,
           max_retries,
           attempt, wait, trace, ret, s3_puts, raised, main_log, s3_key,
           get_calls, ids_listed >>

walkVars == << page, items, movie_id, movies, item_log, delays, tried,
               page_ids, page_calls, listed, pages_listed >>
fetchVars == << caller, max_retries, attempt, wait, trace, ret >>
confVars == << TMDB_API_KEY, NUM_PAGES >>
outVars == << main_log, s3_key >>
countVars == << get_calls, ids_listed >>

-----------------------------------------------------------------------------
(* Bounds of the model *)

MaxPages == 2          \* NUM_PAGES ranges over 0..MaxPages
MaxListed == 2         \* summaries the listing endpoint returns in one run
MaxRetries == 3        \* max_retries of a direct call ranges over 0..MaxRetries

(* Program constants *)

DEFAULT_MAX_RETRIES == 3     \* max_retries: int = 3
RATE_LIMIT_SLEEP == 1        \* time.sleep(0.25), in quarters of a second
BACKOFF_EXTRA == 1           \* the + 0.25 of the backoff, in quarters
QUARTERS == 4                \* quarters in one second

-----------------------------------------------------------------------------
(* Values *)

None == [none |-> TRUE]      \* Python's None, as a response body
NoId == 0                    \* item.get("id") is None

TRANSPORT == 0               \* no HTTP status: a RequestException that is
                             \* not an HTTPError (connection reset, timeout)
ErrorStatuses == {400, 499, 500, 503}

(* One item summary of a listing page: "id" is NoId or the id. *)
Summary(id) == [id |-> id]

(* The page of n summaries whose ids, when present, continue from `first`;  *)
(* `missing` is the set of positions that carry no id.                     *)
PageOf(first, n, missing) ==
    [i \in 1..n |-> Summary(IF i \in missing THEN NoId ELSE first + i)]

(* Bodies the listing endpoint can return when `room` more summaries may be *)
(* listed: no "results" key at all, or a list of summaries.                *)
ListBodies(first, room) ==
    {[has_results |-> FALSE, results |-> << >>]} \cup
    {[has_results |-> TRUE, results |-> PageOf(first, n, m)] :
        n \in 0..room, m \in SUBSET (1..room)}

(* Payloads the detail endpoint can return for id `mid`. `keys` is the set  *)
(* of keys the payload carries: every key may be absent (an absent key's   *)
(* field holds a filler that is never read). A genre entry may lack its    *)
(* "name".                                                                 *)
DetailKeys == {"id", "title", "budget", "revenue", "genres"}
Amounts == {0, 100}
GenreLists == {<<[id |-> 18, name |-> "Drama"]>>, <<[id |-> 18]>>}
DetailBodies(mid) ==
    {[keys |-> K,
      id |-> IF "id" \in K THEN mid ELSE NoId,
      title |-> IF "title" \in K THEN "T" ELSE "",
      budget |-> IF "budget" \in K THEN b ELSE 0,
      revenue |-> IF "revenue" \in K THEN r ELSE 0,
      genres |-> IF "genres" \in K THEN g ELSE << >>] :
        K \in SUBSET DetailKeys, b \in Amounts, r \in Amounts,
        g \in GenreLists}

(* The payloads of the detail endpoint, by id. *)
DetailBodiesById == [mid \in 0..MaxListed |-> DetailBodies(mid)]

DirectBodies == {[data |-> "a"], [data |-> "b"]}

(* What a call of _get_with_retries has produced. *)
NoRet == [kind |-> "running", exc |-> "none", status |-> TRANSPORT, val |-> None]
Returned(v) == [kind |-> "value", exc |-> "none", status |-> 200, val |-> v]
Raised(e, s) == [kind |-> "raise", exc |-> e, status |-> s, val |-> None]

(* Events of a call, in order. *)
Request(n, s, b) ==
    [ev |-> "request", n |-> n, status |-> s, wait |-> 0, body |-> b]
Warning(n, w) ==
    [ev |-> "warning", n |-> n, status |-> TRANSPORT, wait |-> w, body |-> None]
Sleep(w) ==
    [ev |-> "sleep", n |-> 0, status |-> TRANSPORT, wait |-> w, body |-> None]

-----------------------------------------------------------------------------
(* _get_with_retries *)

RECURSIVE Pow2(_)
Pow2(n) == IF n = 0 THEN 1 ELSE 2 * Pow2(n - 1)

(* The backoff with the attempt counted from 1. *)
Backoff_OneIndexed(a) == QUARTERS * Pow2(a + 1) + BACKOFF_EXTRA

(* wait = (2**attempt) + 0.25 *)
Backoff(a) == QUARTERS * Pow2(a) + BACKOFF_EXTRA

(* The client range written as range(400, 499). *)
IsClientError_Short(s) == s >= 400 /\ s < 499

(* e.response.status_code in range(400, 500) *)
IsClientError(s) == s >= 400 /\ s < 500

(* The last attempt taken to be attempt == max_retries. *)
LastAttempt_OffByOne(a, m) == a = m

(* attempt == max_retries - 1 *)
LastAttempt(a, m) == a = m - 1

(* The response bodies the endpoint behind the current call can return. *)
Bodies ==
    CASE caller = "popular" -> ListBodies(listed, MaxListed - listed)
      [] caller = "details" -> DetailBodiesById[movie_id]
      [] OTHER -> DirectBodies

(* The events of a call are recorded for a direct call of the function;    *)
(* inside a run the walk's own variables record what the claims need.      *)
Observed(es) == IF caller = "direct" THEN trace \o es ELSE trace

(* Where control goes when the call ends. *)
Continuation ==
    CASE caller = "popular" -> "popular_ret"
      [] caller = "details" -> "details_ret"
      [] OTHER -> "direct_ret"

(* Entering _get_with_retries(url, params, m) on behalf of c. *)
Call(c, m) ==
    /\ caller' = c
    /\ max_retries' = m
    /\ attempt' = 0
    /\ wait' = 0
    /\ trace' = << >>
    /\ ret' = NoRet
    /\ pc' = "get_attempt"

(* requests.get succeeds, raise_for_status passes, response.json() is returned *)
GetOk ==
    /\ pc = "get_attempt"
    /\ attempt < max_retries
    /\ \E b \in Bodies :
        /\ ret' = Returned(b)
        /\ trace' = Observed(<< Request(attempt, 200, b) >>)
    /\ pc' = Continuation
    /\ attempt' = 0
    /\ wait' = 0
    /\ UNCHANGED << caller, max_retries >>
    /\ get_calls' = get_calls + 1
    /\ UNCHANGED ids_listed
    /\ UNCHANGED << walkVars, confVars, outVars, s3_puts, raised >>

(* The retry branch logging the 0-indexed attempt. *)
RetryOrRaise_LogsZeroBased(e, s) ==
    IF LastAttempt(attempt, max_retries)
    THEN /\ ret' = Raised(e, s)
         /\ trace' = Observed(<< Request(attempt, s, None) >>)
         /\ pc' = Continuation
         /\ attempt' = 0
         /\ wait' = 0
    ELSE /\ wait' = Backoff(attempt)
         /\ trace' = Observed(<< Request(attempt, s, None),
                                 Warning(attempt, Backoff(attempt)) >>)
         /\ pc' = "get_sleep"
         /\ attempt' = attempt
         /\ ret' = ret

(* What follows a failed attempt that is not a client error: raise on the   *)
(* last attempt, otherwise compute wait, log the warning and go to sleep.  *)
RetryOrRaise(e, s) ==
    IF LastAttempt(attempt, max_retries)
    THEN /\ ret' = Raised(e, s)
         /\ trace' = Observed(<< Request(attempt, s, None) >>)
         /\ pc' = Continuation
         /\ attempt' = 0
         /\ wait' = 0
    ELSE /\ wait' = Backoff(attempt)
         /\ trace' = Observed(<< Request(attempt, s, None),
                                 Warning(attempt + 1, Backoff(attempt)) >>)
         /\ pc' = "get_sleep"
         /\ attempt' = attempt
         /\ ret' = ret

(* raise_for_status raises requests.HTTPError *)
GetHTTPError ==
    /\ pc = "get_attempt"
    /\ attempt < max_retries
    /\ \E s \in ErrorStatuses :
        IF IsClientError(s)
        THEN /\ ret' = Raised("HTTPError", s)
             /\ trace' = Observed(<< Request(attempt, s, None) >>)
             /\ pc' = Continuation
             /\ attempt' = 0
             /\ wait' = 0
        ELSE RetryOrRaise("HTTPError", s)
    /\ UNCHANGED << caller, max_retries >>
    /\ get_calls' = get_calls + 1
    /\ UNCHANGED ids_listed
    /\ UNCHANGED << walkVars, confVars, outVars, s3_puts, raised >>

(* requests.get raises another requests.RequestException *)
GetRequestException ==
    /\ pc = "get_attempt"
    /\ attempt < max_retries
    /\ RetryOrRaise("RequestException", TRANSPORT)
    /\ UNCHANGED << caller, max_retries >>
    /\ get_calls' = get_calls + 1
    /\ UNCHANGED ids_listed
    /\ UNCHANGED << walkVars, confVars, outVars, s3_puts, raised >>

(* time.sleep(wait), then the next iteration of the for loop *)
GetSleep ==
    /\ pc = "get_sleep"
    /\ trace' = Observed(<< Sleep(wait) >>)
    /\ attempt' = attempt + 1
    /\ pc' = "get_attempt"
    /\ UNCHANGED << caller, max_retries, wait, ret >>
    /\ UNCHANGED << walkVars, confVars, countVars, outVars, s3_puts, raised >>

(* range(max_retries) is exhausted without a return or a raise: the         *)
(* function falls off its end and returns None.                            *)
GetFallThrough ==
    /\ pc = "get_attempt"
    /\ attempt >= max_retries
    /\ ret' = Returned(None)
    /\ pc' = Continuation
    /\ attempt' = 0
    /\ UNCHANGED << caller, max_retries, wait, trace >>
    /\ UNCHANGED << walkVars, confVars, countVars, outVars, s3_puts, raised >>

-----------------------------------------------------------------------------
(* fetch_movies *)

(* dict.get(key, default) *)
Get(d, key, default) == IF key \in d.keys THEN d[key] ELSE default

(* d[key] raises KeyError *)
KeyMissing(d, key) == key \notin d.keys

(* The filter with `or` in place of `and`. *)
NoFinancialData_Or(details) ==
    Get(details, "budget", 0) = 0 \/ Get(details, "revenue", 0) = 0

(* details.get("budget", 0) == 0 and details.get("revenue", 0) == 0 *)
NoFinancialData(details) ==
    Get(details, "budget", 0) = 0 /\ Get(details, "revenue", 0) = 0

(* Building the dict passed to movies.append raises KeyError: details["id"], *)
(* details["title"], or g["name"] / g["id"] of a genre entry.               *)
ProjectionRaises(details) ==
    \/ KeyMissing(details, "id")
    \/ KeyMissing(details, "title")
    \/ \E i \in DOMAIN Get(details, "genres", << >>) :
          ~ ({"id", "name"} \subseteq DOMAIN Get(details, "genres", << >>)[i])

(* The dict appended to movies, once ProjectionRaises has been ruled out.   *)
(* Keys whose values nothing reads again are left out: those read with a   *)
(* plain .get (release_date, popularity, vote_*, runtime, language,        *)
(* status), the genre lists and _ingested_at.                              *)
Project(details) ==
    [movie_id |-> details.id,
     title |-> details.title,
     budget |-> Get(details, "budget", 0),
     revenue |-> Get(details, "revenue", 0)]

(* The page loop written as range(1, num_pages). *)
PageLoop_OffByOne ==
    /\ pc = "page_loop"
    /\ IF page + 1 < NUM_PAGES
       THEN /\ page' = page + 1
            /\ page_ids' = 0
            /\ page_calls' = 0
            /\ Call("popular", DEFAULT_MAX_RETRIES)
       ELSE /\ pc' = "fetched"
            /\ UNCHANGED << page, page_ids, page_calls, fetchVars >>
    /\ UNCHANGED << items, movie_id, movies, item_log, delays, tried,
                    listed, pages_listed >>
    /\ UNCHANGED << confVars, countVars, outVars, s3_puts, raised >>

(* for page in range(1, num_pages + 1): the next page, or return movies *)
PageLoop ==
    /\ pc = "page_loop"
    /\ IF page + 1 <= NUM_PAGES
       THEN /\ page' = page + 1
            /\ page_ids' = 0
            /\ page_calls' = 0
            /\ Call("popular", DEFAULT_MAX_RETRIES)
       ELSE /\ pc' = "fetched"
            /\ UNCHANGED << page, page_ids, page_calls, fetchVars >>
    /\ UNCHANGED << items, movie_id, movies, item_log, delays, tried,
                    listed, pages_listed >>
    /\ UNCHANGED << confVars, countVars, outVars, s3_puts, raised >>

(* popular = get_popular_movies(page) returned: popular.get("results", []) *)
PopularReturns ==
    /\ pc = "popular_ret"
    /\ ret.kind = "value"
    /\ LET results == IF ret.val.has_results THEN ret.val.results ELSE << >> IN
        /\ items' = results
        /\ listed' = listed + Len(results)
        /\ page_ids' = Cardinality({i \in DOMAIN results : results[i].id # NoId})
        /\ ids_listed' = ids_listed
                          + Cardinality({i \in DOMAIN results : results[i].id # NoId})
    /\ pages_listed' = pages_listed + 1
    /\ ret' = NoRet
    /\ pc' = "item_loop"
    /\ UNCHANGED << page, movie_id, movies, item_log, delays, tried,
                    page_calls >>
    /\ UNCHANGED << caller, max_retries, attempt, wait, trace >>
    /\ UNCHANGED get_calls
    /\ UNCHANGED << confVars, outVars, s3_puts, raised >>

(* A listing failure caught and the page skipped. *)
PopularRaises_Swallowed ==
    /\ pc = "popular_ret"
    /\ ret.kind = "raise"
    /\ ret' = NoRet
    /\ pc' = "page_loop"
    /\ UNCHANGED << walkVars, confVars, countVars, outVars, s3_puts, raised >>
    /\ UNCHANGED << caller, max_retries, attempt, wait, trace >>

(* get_popular_movies(page) raised: nothing in fetch_movies or main catches *)
(* it, so it leaves main.                                                  *)
PopularRaises ==
    /\ pc = "popular_ret"
    /\ ret.kind = "raise"
    /\ raised' = ret.exc
    /\ pc' = "list_failed"
    /\ UNCHANGED << walkVars, fetchVars, confVars, countVars, outVars, s3_puts >>

(* The item loop with `break` in place of `continue` for a missing id. *)
ItemLoop_BreakOnMissingId ==
    /\ pc = "item_loop"
    /\ IF items = << >>
       THEN /\ pc' = "page_loop"
            /\ UNCHANGED << items, movie_id, item_log, delays, tried,
                            page_calls, fetchVars >>
       ELSE /\ movie_id' = Head(items).id
            /\ IF Head(items).id = NoId
               THEN /\ items' = << >>
                    /\ item_log' = "debug: missing id"
                    /\ pc' = "item_loop"
                    /\ UNCHANGED << delays, tried, page_calls, fetchVars >>
               ELSE /\ items' = Tail(items)
                    /\ item_log' = "none"
                    /\ delays' = << >>
                    /\ tried' = TRUE
                    /\ page_calls' = page_calls + 1
                    /\ Call("details", DEFAULT_MAX_RETRIES)
    /\ UNCHANGED << page, movies, page_ids, listed, pages_listed >>
    /\ UNCHANGED << confVars, countVars, outVars, s3_puts, raised >>

(* The item loop without the continue: the details of an item that has no  *)
(* id are requested too.                                                    *)
ItemLoop_FetchMissingId ==
    /\ pc = "item_loop"
    /\ IF items = << >>
       THEN /\ pc' = "page_loop"
            /\ UNCHANGED << items, movie_id, item_log, delays, tried,
                            page_calls, fetchVars >>
       ELSE /\ items' = Tail(items)
            /\ movie_id' = Head(items).id
            /\ item_log' = "none"
            /\ delays' = << >>
            /\ tried' = TRUE
            /\ page_calls' = page_calls + 1
            /\ Call("details", DEFAULT_MAX_RETRIES)
    /\ UNCHANGED << page, movies, page_ids, listed, pages_listed >>
    /\ UNCHANGED << confVars, countVars, outVars, s3_puts, raised >>

(* for item in ...: the loop ends (page complete), or the next item: an    *)
(* item without id is skipped, otherwise the try block is entered and       *)
(* get_movie_details(movie_id) is called.                                  *)
ItemLoop ==
    /\ pc = "item_loop"
    /\ IF items = << >>
       THEN /\ pc' = "page_loop"
            /\ UNCHANGED << items, movie_id, item_log, delays, tried,
                            page_calls, fetchVars >>
       ELSE /\ items' = Tail(items)
            /\ movie_id' = Head(items).id
            /\ IF Head(items).id = NoId
               THEN /\ item_log' = "debug: missing id"
                    /\ pc' = "item_loop"
                    /\ UNCHANGED << delays, tried, page_calls, fetchVars >>
               ELSE /\ item_log' = "none"
                    /\ delays' = << >>
                    /\ tried' = TRUE
                    /\ page_calls' = page_calls + 1
                    /\ Call("details", DEFAULT_MAX_RETRIES)
    /\ UNCHANGED << page, movies, page_ids, listed, pages_listed >>
    /\ UNCHANGED << confVars, countVars, outVars, s3_puts, raised >>

(* The try block inserting the record at the front of movies. *)
Consider_Prepend(details) ==
    IF NoFinancialData(details)
    THEN [movies |-> movies, log |-> "debug: no financial data"]
    ELSE IF ProjectionRaises(details)
    THEN [movies |-> movies, log |-> "error: unexpected"]
    ELSE [movies |-> << Project(details) >> \o movies, log |-> "none"]

(* What the try block does with the payload get_movie_details returned:     *)
(* the new movies and the log record.                                      *)
Consider(details) ==
    IF NoFinancialData(details)
    THEN [movies |-> movies, log |-> "debug: no financial data"]
    ELSE IF ProjectionRaises(details)
    THEN [movies |-> movies, log |-> "error: unexpected"]
    ELSE [movies |-> Append(movies, Project(details)), log |-> "none"]

(* details = get_movie_details(movie_id) returned *)
DetailsReturns ==
    /\ pc = "details_ret"
    /\ ret.kind = "value"
    /\ movies' = Consider(ret.val).movies
    /\ item_log' = Consider(ret.val).log
    /\ ret' = NoRet
    /\ pc' = "finally"
    /\ UNCHANGED << page, items, movie_id, delays, tried, page_ids,
                    page_calls, listed, pages_listed >>
    /\ UNCHANGED << caller, max_retries, attempt, wait, trace >>
    /\ UNCHANGED << confVars, countVars, outVars, s3_puts, raised >>

(* The handler without `except Exception`: only HTTPError is caught. *)
DetailsRaises_Uncaught ==
    /\ pc = "details_ret"
    /\ ret.kind = "raise"
    /\ IF ret.exc = "HTTPError"
       THEN /\ item_log' = "warning: http error"
            /\ pc' = "finally"
            /\ raised' = raised
       ELSE /\ item_log' = item_log
            /\ pc' = "list_failed"
            /\ raised' = ret.exc
    /\ ret' = NoRet
    /\ UNCHANGED << page, items, movie_id, movies, delays, tried, page_ids,
                    page_calls, listed, pages_listed >>
    /\ UNCHANGED << caller, max_retries, attempt, wait, trace >>
    /\ UNCHANGED << confVars, countVars, outVars, s3_puts >>

(* The handler with the sleep at the end of the try block, not in finally. *)
DetailsRaises_NoSleep ==
    /\ pc = "details_ret"
    /\ ret.kind = "raise"
    /\ item_log' = IF ret.exc = "HTTPError" THEN "warning: http error"
                   ELSE "error: unexpected"
    /\ ret' = NoRet
    /\ pc' = "item_loop"
    /\ UNCHANGED << page, items, movie_id, movies, delays, tried, page_ids,
                    page_calls, listed, pages_listed >>
    /\ UNCHANGED << caller, max_retries, attempt, wait, trace >>
    /\ UNCHANGED << confVars, countVars, outVars, s3_puts, raised >>

(* get_movie_details raised: except requests.HTTPError logs a warning,      *)
(* except Exception logs an error.                                         *)
DetailsRaises ==
    /\ pc = "details_ret"
    /\ ret.kind = "raise"
    /\ item_log' = IF ret.exc = "HTTPError" THEN "warning: http error"
                   ELSE "error: unexpected"
    /\ ret' = NoRet
    /\ pc' = "finally"
    /\ UNCHANGED << page, items, movie_id, movies, delays, tried, page_ids,
                    page_calls, listed, pages_listed >>
    /\ UNCHANGED << caller, max_retries, attempt, wait, trace >>
    /\ UNCHANGED << confVars, countVars, outVars, s3_puts, raised >>

(* finally: time.sleep(0.25) *)
Finally ==
    /\ pc = "finally"
    /\ delays' = Append(delays, RATE_LIMIT_SLEEP)
    /\ pc' = "item_loop"
    /\ UNCHANGED << page, items, movie_id, movies, item_log, tried, page_ids,
                    page_calls, listed, pages_listed >>
    /\ UNCHANGED << fetchVars, confVars, countVars, outVars, s3_puts, raised >>

-----------------------------------------------------------------------------
(* upload_to_s3 and main *)

(* json.dumps(m) *)
Dumps(m) == [json |-> m]

(* "\n".join(json.dumps(m) for m in movies): the lines of the body *)
Ndjson(ms) == [i \in DOMAIN ms |-> Dumps(ms[i])]

(* main without the credential check. *)
MainStart_NoKeyCheck ==
    /\ pc = "main"
    /\ pc' = "page_loop"
    /\ UNCHANGED << walkVars, fetchVars, confVars, countVars, outVars, s3_puts, raised >>

(* if not TMDB_API_KEY: raise ValueError; else movies = fetch_movies() *)
MainStart ==
    /\ pc = "main"
    /\ IF ~ TMDB_API_KEY
       THEN /\ raised' = "ValueError"
            /\ pc' = "config_error"
       ELSE /\ pc' = "page_loop"
            /\ raised' = raised
    /\ UNCHANGED << walkVars, fetchVars, confVars, countVars, outVars, s3_puts >>

(* main without the `if not movies` check. *)
MainFetched_NoEmptyCheck ==
    /\ pc = "fetched"
    /\ pc' = "upload"
    /\ UNCHANGED << walkVars, fetchVars, confVars, countVars, outVars, s3_puts, raised >>

(* if not movies: warning and return; else upload_to_s3(movies) *)
MainFetched ==
    /\ pc = "fetched"
    /\ IF movies = << >>
       THEN /\ main_log' = << "warning: no movies fetched" >>
            /\ pc' = "empty"
       ELSE /\ main_log' = main_log
            /\ pc' = "upload"
    /\ UNCHANGED << walkVars, fetchVars, confVars, countVars, s3_puts, raised, s3_key >>

(* s3_key = f"raw/movies/{date}/movies_{timestamp}.json", date and time     *)
(* taken from one `now`; the instant itself is not modelled.               *)
S3Key == "raw/movies/<date>/movies_<time>.json"

(* The s3.put_object call and whether it succeeded. *)
Put(ms, ok) ==
    [Key |-> S3Key, Body |-> Ndjson(ms),
     ContentType |-> "application/x-ndjson", ok |-> ok]

(* s3.put_object(...) succeeds: upload_to_s3 logs the count and returns the *)
(* key, main logs the key.                                                 *)
UploadOk ==
    /\ pc = "upload"
    /\ s3_puts' = Append(s3_puts, Put(movies, TRUE))
    /\ main_log' = << "info: uploaded", "info: ingestion complete" >>
    /\ s3_key' = S3Key
    /\ pc' = "done"
    /\ UNCHANGED << walkVars, fetchVars, confVars, countVars, raised >>

(* A failed write caught and the upload tried again. *)
UploadFails_Retried ==
    /\ pc = "upload"
    /\ s3_puts' = Append(s3_puts, Put(movies, FALSE))
    /\ main_log' = << "error: s3 upload failed" >>
    /\ pc' = "upload"
    /\ UNCHANGED << walkVars, fetchVars, confVars, countVars, raised, s3_key >>

(* s3.put_object(...) raises: upload_to_s3 logs the error and re-raises,    *)
(* main logs it and re-raises.                                             *)
UploadFails ==
    /\ pc = "upload"
    /\ s3_puts' = Append(s3_puts, Put(movies, FALSE))
    /\ main_log' = << "error: s3 upload failed",
                      "error: ingestion failed at s3 upload" >>
    /\ raised' = "S3Error"
    /\ pc' = "upload_failed"
    /\ UNCHANGED << walkVars, fetchVars, confVars, countVars, s3_key >>

-----------------------------------------------------------------------------
(* Specifications *)

WalkInit ==
    /\ page = 0
    /\ items = << >>
    /\ movie_id = NoId
    /\ movies = << >>
    /\ item_log = "none"
    /\ delays = << >>
    /\ tried = FALSE
    /\ page_ids = 0
    /\ page_calls = 0
    /\ listed = 0
    /\ pages_listed = 0
    /\ s3_puts = << >>
    /\ raised = "none"
    /\ main_log = << >>
    /\ s3_key = "none"
    /\ get_calls = 0
    /\ ids_listed = 0

FetchIdle ==
    /\ caller = "none"
    /\ max_retries = DEFAULT_MAX_RETRIES
    /\ attempt = 0
    /\ wait = 0
    /\ trace = << >>
    /\ ret = NoRet

(* One run of main(), for every configuration. *)
Init ==
    /\ TMDB_API_KEY \in BOOLEAN
    /\ NUM_PAGES \in 0..MaxPages
    /\ pc = "main"
    /\ WalkInit
    /\ FetchIdle

Fetcher == GetOk \/ GetHTTPError \/ GetRequestException \/ GetSleep

Next ==
    \/ MainStart
    \/ PageLoop
    \/ PopularReturns
    \/ PopularRaises
    \/ ItemLoop
    \/ DetailsReturns
    \/ DetailsRaises
    \/ Finally
    \/ MainFetched
    \/ UploadOk
    \/ UploadFails
    \/ Fetcher

Spec == Init /\ [][Next]_vars

(* The run as it executes: one sequential thread in which every step is a   *)
(* blocking call that ends (requests.get has timeout=15, every sleep is     *)
(* finite), so a step that can be taken is taken.                          *)
SpecLive == Spec /\ WF_vars(Next)

(* One direct call _get_with_retries(url, params, max_retries). *)
InitFetch ==
    /\ TMDB_API_KEY = TRUE
    /\ NUM_PAGES = 0
    /\ WalkInit
    /\ pc = "get_attempt"
    /\ caller = "direct"
    /\ max_retries \in 0..MaxRetries
    /\ attempt = 0
    /\ wait = 0
    /\ trace = << >>
    /\ ret = NoRet

NextFetch == Fetcher \/ GetFallThrough

SpecFetch == InitFetch /\ [][NextFetch]_vars

-----------------------------------------------------------------------------
(* Properties of one call of _get_with_retries (SpecFetch) *)

Requests == SelectSeq(trace, LAMBDA e : e.ev = "request")
Sleeps == SelectSeq(trace, LAMBDA e : e.ev = "sleep")
(* The requests and sleeps of the call, in the order they happened. *)
Steps == SelectSeq(trace, LAMBDA e : e.ev \in {"request", "sleep"})

IsTransient(s) == s = TRANSPORT \/ (s >= 500 /\ s < 600)
Is4xx(s) == s >= 400 /\ s <= 499

(* C2: when the first k attempts of a call fail with a transient error and  *)
(* attempt k+1 succeeds (k < max_retries), the call has ended returning the *)
(* body of that last response, after exactly k+1 requests and k sleeps; the *)
(* sleep after 0-indexed attempt i lasts 2^i + 0.25 s (4 * 2^i + 1          *)
(* quarters) and lies between request i and request i+1.                   *)
C2_BackoffCorrect ==
    (Requests # << >> /\ Requests[Len(Requests)].status = 200) =>
        LET k == Len(Requests) - 1 IN
        /\ k < max_retries
        /\ pc = "direct_ret"
        /\ ret = Returned(Requests[k + 1].body)
        /\ Len(Sleeps) = k
        /\ Len(Steps) = 2 * k + 1
        /\ \A i \in 0..(k - 1) :
            /\ Steps[2 * i + 1].ev = "request"
            /\ Steps[2 * i + 1].n = i
            /\ IsTransient(Steps[2 * i + 1].status)
            /\ Steps[2 * i + 2].ev = "sleep"
            /\ Steps[2 * i + 2].wait = 4 * (2 ^ i) + 1
        /\ Steps[2 * k + 1].ev = "request"
        /\ Steps[2 * k + 1].n = k

(* Two transient failures, then success: sleeps of 1.25 s and 2.25 s. *)
C2_Witness ==
    /\ pc = "direct_ret"
    /\ ret.kind = "value"
    /\ Len(Requests) = 3
    /\ Len(Sleeps) = 2
    /\ Sleeps[1].wait = 5
    /\ Sleeps[2].wait = 9

(* C3: a response with a status in 400..499, on any attempt, ends the call  *)
(* at once with that failure: it is the last event of the call (no sleep    *)
(* and no request follow it); on the first attempt the call consists of     *)
(* that one request and no sleep.                                          *)
C3_ClientErrorShortCircuit ==
    \A i \in DOMAIN trace :
        (trace[i].ev = "request" /\ Is4xx(trace[i].status)) =>
            /\ i = Len(trace)
            /\ pc = "direct_ret"
            /\ ret = Raised("HTTPError", trace[i].status)
            /\ Len(Requests) = trace[i].n + 1
            /\ Len(Sleeps) = trace[i].n
            /\ (trace[i].n = 0 => (Len(Requests) = 1 /\ Sleeps = << >>))

(* A 499 that follows a transient failure. *)
C3_Witness ==
    /\ pc = "direct_ret"
    /\ ret = Raised("HTTPError", 499)
    /\ Len(Requests) = 2
    /\ Len(Sleeps) = 1

(* C4: with max_retries = M >= 1, a call never issues more than M requests; *)
(* when all M attempts have failed with a transient error the call has      *)
(* ended propagating the failure of the M-th attempt, after exactly M       *)
(* requests and M-1 sleeps, the last event being that request (no sleep     *)
(* after the last allowed attempt).                                        *)
C4_ExhaustedRetries ==
    max_retries >= 1 =>
        /\ Len(Requests) <= max_retries
        /\ (/\ Len(Requests) = max_retries
            /\ IsTransient(Requests[max_retries].status)) =>
                /\ pc = "direct_ret"
                /\ ret.kind = "raise"
                /\ ret.status = Requests[max_retries].status
                /\ ret.exc = (IF ret.status = TRANSPORT
                              THEN "RequestException" ELSE "HTTPError")
                /\ Len(Sleeps) = max_retries - 1
                /\ trace[Len(trace)].ev = "request"
                /\ \A i \in 1..max_retries :
                       /\ Requests[i].n = i - 1
                       /\ IsTransient(Requests[i].status)

(* Three attempts, all failing with 503 or a transport error. *)
C4_Witness ==
    /\ pc = "direct_ret"
    /\ max_retries = 3
    /\ ret = Raised("HTTPError", 503)
    /\ Len(Requests) = 3
    /\ Requests[2].status = TRANSPORT
    /\ Len(Sleeps) = 2

-----------------------------------------------------------------------------
(* Properties of a run of main (Spec) *)

(* budget != 0 or revenue != 0, an absent key counting as 0 *)
HasMoney(d) ==
    \/ ("budget" \in d.keys /\ d.budget # 0)
    \/ ("revenue" \in d.keys /\ d.revenue # 0)

(* The payload carries id and title, and every entry of its genres (when    *)
(* present) carries id and name.                                           *)
WellFormed(d) ==
    /\ "id" \in d.keys
    /\ "title" \in d.keys
    /\ "genres" \in d.keys =>
         \A i \in 1..Len(d.genres) : DOMAIN d.genres[i] = {"id", "name"}

(* The detail endpoint has just returned a payload to the walk. *)
DetailArrived == pc = "details_ret" /\ ret.kind = "value"

(* C1 as stated: the step that considers a payload the detail endpoint      *)
(* returned appends a record to the output iff budget != 0 or revenue != 0, *)
(* whatever other keys the payload carries.                                *)
C1_Original ==
    [][DetailArrived =>
          (Len(movies') = Len(movies) + 1 <=> HasMoney(ret.val))]_vars

(* C1 amended: the step that considers a payload D the detail endpoint      *)
(* returned appends D's record to the output iff (budget != 0 or revenue != *)
(* 0) and D carries id and title and well-formed genre entries; otherwise   *)
(* the output is unchanged.                                                *)
C1_KeptIffFinancialAndWellFormed ==
    [][DetailArrived =>
          IF HasMoney(ret.val) /\ WellFormed(ret.val)
          THEN /\ Len(movies') = Len(movies) + 1
               /\ SubSeq(movies', 1, Len(movies)) = movies
               /\ movies'[Len(movies')].movie_id = ret.val.id
               /\ movies'[Len(movies')].budget =
                     (IF "budget" \in ret.val.keys THEN ret.val.budget ELSE 0)
               /\ movies'[Len(movies')].revenue =
                     (IF "revenue" \in ret.val.keys THEN ret.val.revenue ELSE 0)
          ELSE movies' = movies]_vars

(* A record kept for its revenue alone, its budget key being absent. *)
C1_Witness ==
    /\ pc = "finally"
    /\ item_log = "none"
    /\ movies # << >>
    /\ movies[Len(movies)].movie_id = movie_id
    /\ movies[Len(movies)].budget = 0
    /\ movies[Len(movies)].revenue = 100

FailureLogs == {"warning: http error", "error: unexpected"}
PostWalk == {"fetched", "empty", "upload", "done", "upload_failed"}

(* The per-item step is about to fail: the detail fetch raised, or the      *)
(* payload passes the filter and building its record raises.               *)
ItemFails ==
    /\ pc = "details_ret"
    /\ \/ ret.kind = "raise"
       \/ (ret.kind = "value" /\ HasMoney(ret.val) /\ ~ WellFormed(ret.val))

(* C5: a failure while processing one item does not leave fetch_movies: it  *)
(* is caught and logged, movies is left as it was, and control returns to   *)
(* the item loop with the remaining items of the page untouched; the walk   *)
(* is left with an error only from a listing fetch, and it is over only     *)
(* when every page has been listed and every item iterated.                *)
C5_ItemFailureIsLocal ==
    /\ [][ItemFails =>
            /\ pc' = "finally"
            /\ movies' = movies
            /\ raised' = "none"
            /\ item_log' \in FailureLogs
            /\ items' = items
            /\ page' = page]_vars
    /\ [][pc = "finally" =>
            /\ pc' = "item_loop"
            /\ movies' = movies
            /\ raised' = "none"
            /\ items' = items]_vars
    /\ [][pc' = "list_failed" => pc = "popular_ret"]_vars
    /\ [](pc \in PostWalk => (pages_listed = NUM_PAGES /\ items = << >>))

(* The walk has returned its records although its last item failed. *)
C5_Witness ==
    /\ pc = "fetched"
    /\ NUM_PAGES = 2
    /\ item_log = "error: unexpected"
    /\ movies # << >>
    /\ raised = "none"

(* A per-item attempt is under way: get_movie_details is running or its     *)
(* outcome is being handled, and the finally clause has not run yet.       *)
InAttempt ==
    \/ (pc \in {"get_attempt", "get_sleep"} /\ caller = "details")
    \/ pc \in {"details_ret", "finally"}

(* C6: outside a per-item attempt, exactly one rate-limit sleep of 0.25 s   *)
(* (1 quarter) has been done since the last attempt began, whatever its     *)
(* outcome; so no request (of the next item or of the next listing page)    *)
(* is issued before it. During the attempt none has been done yet.         *)
C6_RateLimitAfterEveryAttempt ==
    IF tried /\ ~ InAttempt THEN delays = << 1 >> ELSE delays = << >>

(* The next listing request is due after an item whose fetch failed. *)
C6_Witness ==
    /\ pc = "get_attempt"
    /\ caller = "popular"
    /\ page = 2
    /\ item_log = "warning: http error"
    /\ delays = << 1 >>

(* C7: a listing fetch that fails leaves the walk and main with its error:  *)
(* the run ends there, with no detail call for that page, no later page     *)
(* listed and no storage write, whatever movies already holds.             *)
C7_ListingFailureIsFatal ==
    /\ [][(pc = "popular_ret" /\ ret.kind = "raise") =>
            /\ pc' = "list_failed"
            /\ raised' = ret.exc
            /\ movies' = movies]_vars
    /\ [](pc = "list_failed" =>
            /\ raised \in {"HTTPError", "RequestException"}
            /\ s3_puts = << >>
            /\ page_calls = 0
            /\ items = << >>
            /\ pages_listed = page - 1)
    /\ [][pc = "list_failed" => FALSE]_vars

(* The listing of page 2 failed after page 1 had yielded records. *)
C7_Witness ==
    /\ pc = "list_failed"
    /\ page = 2
    /\ movies # << >>
    /\ raised = "RequestException"

(* C8: once the walk has returned with no record retained, the run has      *)
(* ended without an error and without a storage write.                     *)
C8_EmptyResultNoUpload ==
    (pc \in (PostWalk \ {"fetched"}) /\ movies = << >>) =>
        /\ pc = "empty"
        /\ s3_puts = << >>
        /\ raised = "none"
        /\ ~ ENABLED Next

(* Two pages were listed and the last record fetched had no financial data. *)
C8_Witness ==
    /\ pc = "empty"
    /\ pages_listed = 2
    /\ listed >= 2
    /\ item_log = "debug: no financial data"

(* C9: at most one storage write is made in a run; when one has been made   *)
(* (or is about to be), every page 1..NUM_PAGES has been listed and every   *)
(* item iterated, and the body written holds one line per record of the     *)
(* complete sequence the walk retained, in order.                          *)
C9_SingleCompleteUpload ==
    /\ Len(s3_puts) <= 1
    /\ (pc = "upload" \/ s3_puts # << >>) =>
          /\ pages_listed = NUM_PAGES
          /\ page = NUM_PAGES
          /\ items = << >>
          /\ movies # << >>
    /\ s3_puts # << >> =>
          /\ pc \in {"done", "upload_failed"}
          /\ Len(s3_puts[1].Body) = Len(movies)
          /\ \A i \in 1..Len(movies) : s3_puts[1].Body[i] = [json |-> movies[i]]

(* One write of a batch that holds records of two pages. *)
C9_Witness ==
    /\ pc = "done"
    /\ NUM_PAGES = 2
    /\ Len(s3_puts) = 1
    /\ Len(s3_puts[1].Body) >= 2
    /\ s3_puts[1].Body[1].json.movie_id = 1
    /\ s3_puts[1].Body[Len(movies)].json.movie_id = listed

RECURSIVE WithId(_)
(* The number of summaries of a sequence that carry an id. *)
WithId(ss) ==
    IF ss = << >> THEN 0
    ELSE (IF Head(ss).id # NoId THEN 1 ELSE 0) + WithId(Tail(ss))

(* C10: a summary without id is skipped: no detail call, no error, and the  *)
(* rest of the page is iterated; so the detail calls made for a page plus   *)
(* the summaries with an id still to iterate equal the summaries of the     *)
(* page that carry an id, and at the end of the page the two are equal.    *)
C10_MissingIdSkipped ==
    /\ [](page_calls + WithId(items) = page_ids)
    /\ [](pc \in ({"page_loop"} \cup PostWalk) => page_calls = page_ids)
    /\ [][(pc = "item_loop" /\ items # << >> /\ Head(items).id = NoId) =>
            /\ pc' = "item_loop"
            /\ items' = Tail(items)
            /\ page_calls' = page_calls
            /\ raised' = "none"
            /\ movies' = movies]_vars

(* A page of two summaries, the first without id: the second was fetched. *)
C10_Witness ==
    /\ pc = "page_loop"
    /\ page = 1
    /\ listed = 2
    /\ page_ids = 1
    /\ page_calls = 1
    /\ movie_id = 2
    /\ item_log # "debug: missing id"

(* C11: without a credential the run ends with the configuration error     *)
(* before any network activity: _get_with_retries is never entered (no      *)
(* listing request, no detail request) and no storage write is made.       *)
C11_NoNetworkWithoutCredential ==
    ~ TMDB_API_KEY =>
        /\ pc \in {"main", "config_error"}
        /\ caller = "none"
        /\ page = 0
        /\ pages_listed = 0
        /\ ~ tried
        /\ s3_puts = << >>
        /\ pc = "config_error" => (raised = "ValueError" /\ ~ ENABLED Next)

(* The run has failed on the missing credential with two pages configured. *)
C11_Witness ==
    /\ pc = "config_error"
    /\ ~ TMDB_API_KEY
    /\ NUM_PAGES = 2
    /\ raised = "ValueError"

(* C12: a storage write that fails ends the run with its error, logged by   *)
(* upload_to_s3 and by main: it is the only write attempted in the run, it  *)
(* is not retried, and no key is returned.                                 *)
C12_UploadFailureIsFatal ==
    \A i \in DOMAIN s3_puts :
        ~ s3_puts[i].ok =>
            /\ pc = "upload_failed"
            /\ raised = "S3Error"
            /\ Len(s3_puts) = 1
            /\ s3_key = "none"
            /\ main_log = << "error: s3 upload failed",
                             "error: ingestion failed at s3 upload" >>
            /\ ~ ENABLED Next

(* The write of a batch of two records has failed. *)
C12_Witness ==
    /\ pc = "upload_failed"
    /\ Len(movies) = 2
    /\ Len(s3_puts) = 1
    /\ ~ s3_puts[1].ok

(* A request of the call that failed. *)
FailedRequest(i) == trace[i].ev = "request" /\ trace[i].status # 200

(* C13 as stated: every failed attempt of a call, whether a retry follows   *)
(* it or its failure is propagated, is followed by a log event of the       *)
(* Fetcher.                                                                *)
C13_Original ==
    \A i \in DOMAIN trace :
        FailedRequest(i) =>
            (i < Len(trace) /\ trace[i + 1].ev = "warning")

(* C13 amended: a failed attempt that is followed by a retry is logged,     *)
(* before the sleep, with its 1-based attempt number and the wait of that   *)
(* sleep (2^attempt + 0.25 s); a failed attempt whose failure is propagated *)
(* (a 4xx, or the last allowed attempt) produces no log event in the        *)
(* Fetcher.                                                                *)
C13_RetriesAreLogged ==
    \A i \in DOMAIN trace :
        FailedRequest(i) =>
            IF Is4xx(trace[i].status) \/ trace[i].n = max_retries - 1
            THEN i = Len(trace)
            ELSE /\ i < Len(trace)
                 /\ trace[i + 1].ev = "warning"
                 /\ trace[i + 1].n = trace[i].n + 1
                 /\ trace[i + 1].wait = 4 * (2 ^ trace[i].n) + 1
                 /\ i + 1 < Len(trace) =>
                      (trace[i + 2].ev = "sleep"
                         /\ trace[i + 2].wait = trace[i + 1].wait)
                 /\ i + 1 = Len(trace) => pc = "get_sleep"

(* Two retries were logged, as attempts 1 and 2, and the third attempt's    *)
(* failure was propagated without a log.                                   *)
C13_Witness ==
    /\ pc = "direct_ret"
    /\ ret.kind = "raise"
    /\ Len(trace) = 7
    /\ trace[2] = Warning(1, 5)
    /\ trace[5] = Warning(2, 9)
    /\ trace[7].ev = "request"

(* C14 as stated: a call that has ended has either returned the parsed body *)
(* of a successful request or raised a client error or an exhausted         *)
(* transient error; it never returns without a response.                   *)
C14_ReturnsResponseOrRaises ==
    pc = "direct_ret" =>
        \/ /\ ret.kind = "value"
           /\ ret.val \in DirectBodies
           /\ Requests # << >>
           /\ Requests[Len(Requests)].status = 200
           /\ Requests[Len(Requests)].body = ret.val
        \/ /\ ret.kind = "raise"
           /\ Requests # << >>
           /\ Requests[Len(Requests)].status = ret.status
           /\ \/ (ret.exc = "HTTPError" /\ Is4xx(ret.status))
              \/ (IsTransient(ret.status) /\ Len(Requests) = max_retries)

(* C15: the records of movies stand in listing order (the id of a summary   *)
(* is its position in the listing of the run, so an earlier page or an      *)
(* earlier position on the same page is a smaller id), and movies only      *)
(* grows at its end: every step keeps the records it held, in place, and  *)
(* leaves movies in listing order (it starts empty).                        *)
C15_ListingOrderAppendOnly ==
    [][/\ Len(movies') >= Len(movies)
       /\ SubSeq(movies', 1, Len(movies)) = movies
       /\ \A i, j \in DOMAIN movies' :
              i < j => movies'[i].movie_id < movies'[j].movie_id]_vars

(* Two pages of one summary each, both retained: the record of the first  *)
(* page stands before the record of the second.                            *)
C15_Witness ==
    /\ pc = "fetched"
    /\ pages_listed = 2
    /\ listed = 2
    /\ page_ids = 1
    /\ Len(movies) = 2
    /\ movies[1].movie_id = 1
    /\ movies[2].movie_id = 2

-----------------------------------------------------------------------------
(* Termination and request budget of a run (SpecLive) *)

EndStates == {"config_error", "list_failed", "empty", "upload_failed", "done"}

(* C16: a run eventually reaches one of its end states (configuration       *)
(* error, listing failure, empty result, upload failure, upload done) and   *)
(* takes no step from there; in every state the requests.get calls made so  *)
(* far number at most max_retries times the listing pages requested (never  *)
(* more than NUM_PAGES) plus the summaries listed that carry an id.        *)
C16_TerminatesWithinRequestBudget ==
    /\ <>(pc \in EndStates)
    /\ [][pc \notin EndStates]_vars
    /\ [](page <= NUM_PAGES)
    /\ [](get_calls <= max_retries * (page + ids_listed))

(* A run that ends with the upload done after spending its whole budget:    *)
(* the one listing and the one details call both succeeded on the last      *)
(* attempt.                                                                *)
C16_Witness ==
    /\ pc = "done"
    /\ page = 1
    /\ ids_listed = 1
    /\ max_retries = 3
    /\ get_calls = 6

====
